---- MODULE Spec2Model ----
(***************************************************************************)
(* A model of package logr (src/logr.go): a levelled logger wrapping the   *)
(* standard library's default log.Logger.                                  *)
(*                                                                         *)
(* Strings are sequences of lexemes (the literal pieces of the format      *)
(* strings, names, message atoms); the LOG_LEVEL value is a sequence of    *)
(* characters because getLevel folds its case.  Logger values live in a    *)
(* heap (the sequence loggers, an address is an index), so that a copy and *)
(* an alias are different things.  Of the stream the default log.Logger    *)
(* writes to, the model keeps the number of lines written and the last     *)
(* one: the program never reads the stream back.                           *)
(***************************************************************************)
EXTENDS Integers, Sequences, FiniteSets, TLC

VARIABLES
    loggers,    \* heap of Logger structs: [Level, Logger, contextMessage]
    prefix,     \* prefix of the log package's default logger (log.Default())
    flags,      \* flags of the log package's default logger
    written,    \* number of lines the default logger has written
    line,       \* the last line it has written
    alive,      \* FALSE once os.Exit has run
    pc,         \* per goroutine: where it stands inside Logger.log
    origin,     \* history: how each Logger was made
    last        \* history: the most recent completed call

vars == <<loggers, prefix, flags, written, line, alive, pc, origin, last>>

-----------------------------------------------------------------------------
(* Bounds *)

\* Logger values alive at once, where calls of every kind are mixed
MaxReceivers == 2
\* Logger values alive at once, where loggers are derived from loggers
MaxLoggers == 3
\* lines written before the program stops logging
MaxWrites == 1

-----------------------------------------------------------------------------
(* Inputs *)

\* values of LOG_LEVEL, as character sequences
EnvValues ==
    { <<"e","r","r","o","r">>, <<"E","R","R","O","R">>, <<"E","r","r","o","r">>,
      <<"d","e","b","u","g">>, <<"D","e","b","u","g">>, <<"D","E","B","U","G">>,
      <<"i","n","f","o">>, <<"I","N","F","O">>,
      << >>, <<"b","o","g","u","s">>, <<"e","r","r">>, <<"d","e","b","u","g","s">> }

EnvStates ==
    {[set |-> FALSE, val |-> << >>]} \cup {[set |-> TRUE, val |-> v] : v \in EnvValues}

\* the LOG_LEVEL settings the logging program runs under: one per threshold
StartEnv ==
    { [set |-> FALSE, val |-> << >>],
      [set |-> TRUE, val |-> <<"E","R","R","O","R">>],
      [set |-> TRUE, val |-> <<"D","e","b","u","g">>] }

\* messages handed to Error/Info/Debug/Fatal
Msgs == { <<"say", "\"", "hi">> }

\* format strings and argument lists handed to the f-variants
Formats == { <<"count=", "%d">> }
ArgLists == { << <<"3">> >> }

\* maps handed to WithContext
FieldMaps ==
    { << >>, "a" :> "1", "b" :> "2", ("a" :> "1") @@ ("b" :> "2") }

\* one single-entry map among them
SingleFields == { "a" :> "1" }

\* call sites of WithSource, as runtime.Caller(1) reports them
CallSites == { [file |-> "main.go", line |-> 10] }

Goroutines == {"g1", "g2"}

\* the wall-clock readings time.Now() may return, in seconds
Times == {0, 1}

-----------------------------------------------------------------------------
(* Levels *)

ErrorLevel == [val |-> 0, name |-> "ERROR"]
InfoLevel == [val |-> 1, name |-> "INFO"]
DebugLevel == [val |-> 2, name |-> "DEBUG"]

Levels == {ErrorLevel, InfoLevel, DebugLevel}

UpperChars == <<"B","D","E","F","G","I","N","O","R","S","U">>
LowerChars == <<"b","d","e","f","g","i","n","o","r","s","u">>

\* strings.ToLower
ToLower(s) ==
    [i \in 1..Len(s) |->
        IF \E j \in 1..Len(UpperChars) : UpperChars[j] = s[i]
        THEN LowerChars[CHOOSE j \in 1..Len(UpperChars) : UpperChars[j] = s[i]]
        ELSE s[i]]

\* getLevel without strings.ToLower
getLevelNoFold(l) ==
    CASE l = <<"e","r","r","o","r">> -> ErrorLevel
      [] l = <<"d","e","b","u","g">> -> DebugLevel
      [] l = <<"i","n","f","o">> -> InfoLevel
      [] OTHER -> InfoLevel

getLevel(l) ==
    CASE ToLower(l) = <<"e","r","r","o","r">> -> ErrorLevel
      [] ToLower(l) = <<"d","e","b","u","g">> -> DebugLevel
      [] ToLower(l) = <<"i","n","f","o">> -> InfoLevel
      [] OTHER -> InfoLevel

-----------------------------------------------------------------------------
(* Formatting *)

\* time.Now().Format(format): one lexeme per second of the clock
Format(t) == "T" \o ToString(t)

\* what %q does to a string: escape the quotes in it and wrap it in quotes
Quote(s) ==
    <<"\"">> \o [i \in 1..Len(s) |-> IF s[i] = "\"" THEN "\\\"" ELSE s[i]] \o <<"\"">>

Verbs == {"%s", "%d", "%q"}

RECURSIVE Sprintf(_, _)
\* fmt.Sprintf(f, a...): a is the sequence of arguments, each already a string
Sprintf(f, a) ==
    IF f = << >> THEN (IF a = << >> THEN << >> ELSE <<"%!(EXTRA)">>)
    ELSE IF Head(f) \in Verbs
         THEN IF a = << >>
              THEN <<Head(f) \o "!(MISSING)">> \o Sprintf(Tail(f), a)
              ELSE (IF Head(f) = "%q" THEN Quote(Head(a)) ELSE Head(a))
                   \o Sprintf(Tail(f), Tail(a))
         ELSE <<Head(f)>> \o Sprintf(Tail(f), a)

\* log.Logger.Output of the default logger: header, text, and a newline
\* when the text does not end in one
Output(p, fl, s) ==
    p \o (IF fl = 0 THEN << >> ELSE <<"<date>", " ">>) \o s
      \o (IF s # << >> /\ s[Len(s)] = "\n" THEN << >> ELSE <<"\n">>)

\* the orders in which a range loop may visit the keys K of a map
Orders(K) ==
    {o \in [1..Cardinality(K) -> K] : \A i, j \in 1..Cardinality(K) : i # j => o[i] # o[j]}

-----------------------------------------------------------------------------
(* History records *)

Idle == [at |-> "idle", l |-> 0, lvl |-> ErrorLevel, s |-> << >>,
         timeLevel |-> << >>, raced |-> FALSE, other |-> << >>]

NoEnv == [set |-> FALSE, val |-> << >>]

Call(op, l, lvl, msg, res) ==
    [op |-> op, l |-> l, lvl |-> lvl, msg |-> msg, n |-> written, res |-> res,
     raced |-> FALSE, own |-> << >>, other |-> << >>]

-----------------------------------------------------------------------------
(* Construction *)

\* os.LookupEnv("LOG_LEVEL") followed by os.Getenv when it is set;
\* env, the entry of LOG_LEVEL in the process environment, is [set, val]
LookupLevel(env) == IF env.set THEN env.val ELSE << >>

\* the Logger struct NewLogger returns
newLogger(env) ==
    [Level |-> getLevel(LookupLevel(env)), Logger |-> "log.std", contextMessage |-> << >>]

\* the default logger: std = NewLogger()
std == 1

\* the state after package initialisation, LOG_LEVEL being one of E
start(E) ==
    /\ \E env \in E :
          /\ loggers = <<newLogger(env)>>
          /\ origin = <<[parent |-> 0, env |-> env, fields |-> << >>]>>
    /\ prefix = << >>
    /\ flags = 0
    /\ written = 0
    /\ line = << >>
    /\ alive = TRUE
    /\ pc = [t \in Goroutines |-> Idle]
    /\ last = [op |-> "init", l |-> 0, lvl |-> "", msg |-> << >>, n |-> 0, res |-> std,
               raced |-> FALSE, own |-> << >>, other |-> << >>]

Init == start(StartEnv)

Quiet == \A t \in Goroutines : pc[t].at = "idle"

NewLogger(env) ==
    /\ alive /\ Quiet
    /\ loggers' = Append(loggers, newLogger(env))
    /\ flags' = 0
    /\ origin' = Append(origin, [parent |-> 0, env |-> env, fields |-> << >>])
    /\ last' = Call("NewLogger", 0, "", << >>, Len(loggers) + 1)
    /\ UNCHANGED <<prefix, written, line, alive, pc>>

-----------------------------------------------------------------------------
(* Derivation *)

\* clone handing back its receiver
cloneAlias(h, l) == [heap |-> h, ptr |-> l]

\* clone losing the threshold
cloneLevel(h, l) ==
    [heap |-> Append(h, [h[l] EXCEPT !.Level = InfoLevel]), ptr |-> Len(h) + 1]

\* copy := *l; return &copy
clone(h, l) == [heap |-> Append(h, h[l]), ptr |-> Len(h) + 1]

RECURSIVE rangeFields(_, _, _)
\* the loop leaving after its first entry
rangeFieldsFirstOnly(context, s, o) ==
    IF o = << >> THEN context
    ELSE Sprintf(<<"%s", " ", "%s", "=", "%s">>, <<context, <<Head(o)>>, <<s[Head(o)]>> >>)

\* the loop of WithContext over the map s, visiting its keys in the order o
rangeFields(context, s, o) ==
    IF o = << >> THEN context
    ELSE rangeFields(Sprintf(<<"%s", " ", "%s", "=", "%s">>,
                             <<context, <<Head(o)>>, <<s[Head(o)]>> >>), s, Tail(o))

\* the body of WithContext, called as op
withContext(op, l, s, o) ==
    LET c == clone(loggers, l)
        context == rangeFields(loggers[l].contextMessage, s, o)
    IN  /\ loggers' = [c.heap EXCEPT ![c.ptr].contextMessage = context]
        /\ origin' = [i \in 1..Len(loggers') |->
                        IF i <= Len(origin) THEN origin[i]
                        ELSE [parent |-> l, env |-> NoEnv, fields |-> s]]
        /\ last' = Call(op, l, "", << >>, c.ptr)

WithContext(l, s) ==
    /\ alive /\ Quiet
    /\ \E o \in Orders(DOMAIN s) : withContext("WithContext", l, s, o)
    /\ UNCHANGED <<prefix, flags, written, line, alive, pc>>

WithSource(l, site) ==
    /\ alive /\ Quiet
    /\ LET s == ("file" :> site.file)
                @@ ("line" :> Sprintf(<<"%d">>, << <<ToString(site.line)>> >>)[1])
       IN  \E o \in Orders(DOMAIN s) : withContext("WithSource", l, s, o)
    /\ UNCHANGED <<prefix, flags, written, line, alive, pc>>

-----------------------------------------------------------------------------
(* Emission, one call at a time *)

\* timeLevel := fmt.Sprintf(`timestamp=%s level=%s `, time.Now().Format(format), lvl.name)
timeLevel(now, lvl) ==
    Sprintf(<<"timestamp=", "%s", " ", "level=", "%s", " ">>,
            << <<Format(now)>>, <<lvl.name>> >>)

\* the test turned around
gateInverted(lvl, threshold) == lvl.val >= threshold.val

\* if lvl.val <= l.Level.val
gate(lvl, threshold) == lvl.val <= threshold.val

\* the text without the context
textNoContext(s, contextMessage) == Sprintf(<<"msg=", "%q">>, <<s>>)

\* the text Logger.log hands to Printf
text(s, contextMessage) ==
    IF contextMessage # << >>
    THEN Sprintf(<<"msg=", "%q", "%s">>, <<s, contextMessage>>)
    ELSE Sprintf(<<"msg=", "%q">>, <<s>>)

\* log setting the prefix only for a line it writes
logPrefixWhenWritten(l, lvl, s, now) ==
    IF gate(lvl, loggers[l].Level)
    THEN /\ prefix' = timeLevel(now, lvl)
         /\ line' = Output(prefix', flags, text(s, loggers[l].contextMessage))
         /\ written' = written + 1
    ELSE UNCHANGED <<prefix, line, written>>

\* Logger.log, run without interruption, time.Now() returning now
log(l, lvl, s, now) ==
    /\ prefix' = timeLevel(now, lvl)
    /\ IF gate(lvl, loggers[l].Level)
       THEN /\ line' = Output(prefix', flags, text(s, loggers[l].contextMessage))
            /\ written' = written + 1
       ELSE UNCHANGED <<line, written>>

\* the frame of a call that runs log
emit(op, l, lvl, s, now) ==
    /\ alive /\ Quiet
    /\ gate(lvl, loggers[l].Level) => written < MaxWrites
    /\ log(l, lvl, s, now)
    /\ last' = Call(op, l, lvl.name, s, 0)
    /\ UNCHANGED <<loggers, flags, alive, pc, origin>>

\* m := fmt.Sprintf(fmt.Sprintf(`%s`, format), s...)
formatted(format, s) == Sprintf(Sprintf(<<"%s">>, <<format>>), s)

Error(l, s, now) == emit("Error", l, ErrorLevel, s, now)
Errorf(l, format, s, now) == emit("Errorf", l, ErrorLevel, formatted(format, s), now)
Info(l, s, now) == emit("Info", l, InfoLevel, s, now)
Infof(l, format, s, now) == emit("Infof", l, InfoLevel, formatted(format, s), now)
Debug(l, s, now) == emit("Debug", l, DebugLevel, s, now)
Debugf(l, format, s, now) == emit("Debugf", l, DebugLevel, formatted(format, s), now)

-----------------------------------------------------------------------------
(* Fatal *)

\* log.Logger.Fatal without os.Exit
exitReturns(op, l, m) ==
    /\ alive /\ Quiet
    /\ line' = Output(prefix, flags, m)
    /\ written' = written + 1
    /\ alive' = alive
    /\ last' = Call(op, l, "FATAL", m, 0)
    /\ UNCHANGED <<loggers, prefix, flags, pc, origin>>

\* log.Logger.Fatal(m) of the embedded logger: Output, then os.Exit(1)
exit(op, l, m) ==
    /\ alive /\ Quiet
    /\ line' = Output(prefix, flags, m)
    /\ written' = written + 1
    /\ alive' = FALSE
    /\ last' = Call(op, l, "FATAL", m, 0)
    /\ UNCHANGED <<loggers, prefix, flags, pc, origin>>

Fatal(l, s) ==
    exit("Fatal", l, Sprintf(<<"level=", "FATAL", " ", "msg=", "%s">>, <<s>>))

Fatalf(l, format, s) ==
    exit("Fatalf", l,
         Sprintf(Sprintf(<<"level=", "FATAL", " ", "msg=", "%s">>, <<format>>), s))

-----------------------------------------------------------------------------
(* The package-level functions: the same methods of std *)

StdError(s, now) == emit("logr.Error", std, ErrorLevel, s, now)
StdErrorf(format, s, now) == emit("logr.Errorf", std, ErrorLevel, formatted(format, s), now)
StdInfo(s, now) == emit("logr.Info", std, InfoLevel, s, now)
StdInfof(format, s, now) == emit("logr.Infof", std, InfoLevel, formatted(format, s), now)
StdDebug(s, now) == emit("logr.Debug", std, DebugLevel, s, now)
StdDebugf(format, s, now) == emit("logr.Debugf", std, DebugLevel, formatted(format, s), now)
StdFatal(s) ==
    exit("logr.Fatal", std, Sprintf(<<"level=", "FATAL", " ", "msg=", "%s">>, <<s>>))
StdFatalf(format, s) ==
    exit("logr.Fatalf", std,
         Sprintf(Sprintf(<<"level=", "FATAL", " ", "msg=", "%s">>, <<format>>), s))

-----------------------------------------------------------------------------
(* Calls of every kind, made one at a time *)

Next ==
    \/ \E env \in StartEnv : Len(loggers) < MaxReceivers /\ NewLogger(env)
    \/ \E l \in 1..Len(loggers), s \in SingleFields :
          Len(loggers) < MaxReceivers /\ WithContext(l, s)
    \/ \E l \in 1..Len(loggers), site \in CallSites :
          Len(loggers) < MaxReceivers /\ WithSource(l, site)
    \/ \E l \in 1..Len(loggers), s \in Msgs, now \in Times : Error(l, s, now)
    \/ \E l \in 1..Len(loggers), f \in Formats, s \in ArgLists, now \in Times :
          Errorf(l, f, s, now)
    \/ \E l \in 1..Len(loggers), s \in Msgs, now \in Times : Info(l, s, now)
    \/ \E l \in 1..Len(loggers), f \in Formats, s \in ArgLists, now \in Times :
          Infof(l, f, s, now)
    \/ \E l \in 1..Len(loggers), s \in Msgs, now \in Times : Debug(l, s, now)
    \/ \E l \in 1..Len(loggers), f \in Formats, s \in ArgLists, now \in Times :
          Debugf(l, f, s, now)
    \/ \E l \in 1..Len(loggers), s \in Msgs : Fatal(l, s)
    \/ \E l \in 1..Len(loggers), f \in Formats, s \in ArgLists : Fatalf(l, f, s)
    \/ \E s \in Msgs, now \in Times : StdError(s, now)
    \/ \E f \in Formats, s \in ArgLists, now \in Times : StdErrorf(f, s, now)
    \/ \E s \in Msgs, now \in Times : StdInfo(s, now)
    \/ \E f \in Formats, s \in ArgLists, now \in Times : StdInfof(f, s, now)
    \/ \E s \in Msgs, now \in Times : StdDebug(s, now)
    \/ \E f \in Formats, s \in ArgLists, now \in Times : StdDebugf(f, s, now)
    \/ \E s \in Msgs : StdFatal(s)
    \/ \E f \in Formats, s \in ArgLists : StdFatalf(f, s)

Spec == Init /\ [][Next]_vars

-----------------------------------------------------------------------------
(* Loggers derived from loggers, and what they then emit *)

NextDerive ==
    \/ \E env \in StartEnv : Len(loggers) < MaxLoggers /\ NewLogger(env)
    \/ \E l \in 1..Len(loggers), s \in FieldMaps :
          Len(loggers) < MaxLoggers /\ WithContext(l, s)
    \/ \E l \in 1..Len(loggers), site \in CallSites :
          Len(loggers) < MaxLoggers /\ WithSource(l, site)
    \/ \E l \in 1..Len(loggers), s \in Msgs : Info(l, s, 0)

SpecDerive == Init /\ [][NextDerive]_vars

-----------------------------------------------------------------------------
(* Level resolution over the values of LOG_LEVEL *)

InitLevel == start(EnvStates)

NextLevel ==
    \E env \in EnvStates : Len(loggers) < MaxReceivers /\ NewLogger(env)

SpecLevel == InitLevel /\ [][NextLevel]_vars

-----------------------------------------------------------------------------
(* Logger.log run by two goroutines, statement by statement *)

\* a goroutine enters log from one of the six methods and computes timeLevel
logBegin(t, l, lvl, s, now) ==
    /\ alive
    /\ pc[t].at = "idle"
    /\ written < MaxWrites
    /\ pc' = [pc EXCEPT ![t] = [at |-> "SetPrefix", l |-> l, lvl |-> lvl, s |-> s,
                                timeLevel |-> timeLevel(now, lvl),
                                raced |-> FALSE, other |-> << >>]]
    /\ UNCHANGED <<loggers, prefix, flags, written, line, alive, origin, last>>

\* l.SetPrefix(timeLevel), then the test of the level; a goroutine that is
\* about to print is marked when another one stores its prefix
logSetPrefix(t) ==
    /\ alive
    /\ pc[t].at = "SetPrefix"
    /\ prefix' = pc[t].timeLevel
    /\ LET passes == gate(pc[t].lvl, loggers[pc[t].l].Level)
       IN  /\ pc' = [u \in Goroutines |->
                       IF u = t
                       THEN (IF passes THEN [pc[t] EXCEPT !.at = "Printf"] ELSE Idle)
                       ELSE IF pc[u].at = "Printf"
                            THEN [pc[u] EXCEPT !.raced = TRUE, !.other = pc[t].timeLevel]
                            ELSE pc[u]]
           /\ last' = IF passes THEN last
                      ELSE [Call("log", pc[t].l, pc[t].lvl.name, pc[t].s, 0)
                              EXCEPT !.own = pc[t].timeLevel]
    /\ UNCHANGED <<loggers, flags, written, line, alive, origin>>

\* Printf writing the prefix its own call computed
printfOwnPrefix(t) ==
    /\ line' = Output(pc[t].timeLevel, flags, text(pc[t].s, loggers[pc[t].l].contextMessage))
    /\ written' = written + 1

\* l.Printf(...): the default logger writes its prefix and the text
printf(t) ==
    /\ line' = Output(prefix, flags, text(pc[t].s, loggers[pc[t].l].contextMessage))
    /\ written' = written + 1

logPrintf(t) ==
    /\ alive
    /\ pc[t].at = "Printf"
    /\ printf(t)
    /\ pc' = [pc EXCEPT ![t] = Idle]
    /\ last' = [Call("log", pc[t].l, pc[t].lvl.name, pc[t].s, 0)
                  EXCEPT !.own = pc[t].timeLevel, !.raced = pc[t].raced,
                         !.other = pc[t].other]
    /\ UNCHANGED <<loggers, prefix, flags, alive, origin>>

\* the state after package initialisation and ctx := std.WithContext({"a": "1"})
InitConc ==
    /\ \E env \in StartEnv :
          /\ loggers = <<newLogger(env),
                         [newLogger(env) EXCEPT
                            !.contextMessage = rangeFields(<< >>, "a" :> "1", <<"a">>)]>>
          /\ origin = <<[parent |-> 0, env |-> env, fields |-> << >>],
                        [parent |-> std, env |-> NoEnv, fields |-> "a" :> "1"]>>
    /\ prefix = << >>
    /\ flags = 0
    /\ written = 0
    /\ line = << >>
    /\ alive = TRUE
    /\ pc = [t \in Goroutines |-> Idle]
    /\ last = [Call("WithContext", std, "", << >>, 2) EXCEPT !.n = 0]

NextConc ==
    \/ \E t \in Goroutines, l \in 1..Len(loggers), lvl \in Levels, s \in Msgs, now \in Times :
          logBegin(t, l, lvl, s, now)
    \/ \E t \in Goroutines : logSetPrefix(t)
    \/ \E t \in Goroutines : logPrintf(t)

SpecConc == InitConc /\ [][NextConc]_vars

-----------------------------------------------------------------------------
(* What the properties speak of *)

EmitOps == {"Error", "Errorf", "Info", "Infof", "Debug", "Debugf",
            "logr.Error", "logr.Errorf", "logr.Info", "logr.Infof",
            "logr.Debug", "logr.Debugf"}

FatalOps == {"Fatal", "Fatalf", "logr.Fatal", "logr.Fatalf"}

\* the most recent call wrote a line
Wrote == written = last.n + 1

\* the rank of a level, by its name
Rank(name) == CASE name = "ERROR" -> 0 [] name = "INFO" -> 1 [] name = "DEBUG" -> 2

\* the prefix an emission call of the level named name builds at time now
PrefixOf(now, name) == <<"timestamp=", Format(now), " ", "level=", name, " ">>

\* the positions of the lexeme x in the string s
Places(s, x) == {i \in 1..Len(s) : s[i] = x}

\* the text reads level=<name> at position i
TagAt(s, i, name) == i + 1 <= Len(s) /\ s[i] = "level=" /\ s[i + 1] = name

RECURSIVE Root(_)
\* the constructed logger a logger was derived from, through any chain
Root(i) == IF origin[i].parent = 0 THEN i ELSE Root(origin[i].parent)

\* the keys of the " k=v" fragments of a context suffix
Keys(c) == {c[j] : j \in {i \in 1..Len(c) : i % 4 = 2}}

\* two characters are the same letter, whatever their case
SameLetter(a, b) ==
    a = b \/ \E j \in 1..Len(UpperChars) : {a, b} = {UpperChars[j], LowerChars[j]}

\* v reads as the lower-case word w, whatever its casing
EqualFold(v, w) == Len(v) = Len(w) /\ \A i \in 1..Len(v) : SameLetter(v[i], w[i])

-----------------------------------------------------------------------------
(* Properties *)

\* C1: an emission call of level L on a logger of threshold T writes exactly
\* one line when rank(L) <= rank(T) and no line when rank(L) > rank(T),
\* whatever calls came before.
C1_Gate ==
    last.op \in EmitOps =>
        written - last.n =
            (IF Rank(last.lvl) <= Rank(loggers[last.l].Level.name) THEN 1 ELSE 0)

\* a Debug call on a derived logger of threshold ERROR, after an earlier
\* line was written, wrote nothing
C1_Witness ==
    /\ last.op = "Debug"
    /\ origin[last.l].parent # 0
    /\ loggers[last.l].Level.name = "ERROR"
    /\ last.n = 1
    /\ written = 1

\* C2: with calls made one at a time, the line an emission call of level L
\* with message m on logger g writes is the prefix carrying level=L of that
\* call, then msg="m", then g's context suffix, whatever calls came before.
C2_Line ==
    (last.op \in EmitOps /\ Wrote) =>
        \E now \in Times :
            line = PrefixOf(now, last.lvl) \o <<"msg=">> \o Quote(last.msg)
                     \o loggers[last.l].contextMessage \o <<"\n">>

\* Infof("count=%d", 3) at time 1 on a logger derived with {a: 1}
C2_Witness ==
    /\ last.op = "Infof"
    /\ Wrote
    /\ line = <<"timestamp=", "T1", " ", "level=", "INFO", " ",
                "msg=", "\"", "count=", "3", "\"", " ", "a", "=", "1", "\n">>

\* C3: no call changes a Logger that exists: after any WithContext or
\* WithSource on g or on a logger derived from g, g has the suffix and the
\* threshold it had (no suffix when g was constructed), and a derived logger
\* holds the keys of its receiver and of its own map, not those of another
\* logger derived from the same receiver.
C3_Frame ==
    [][/\ Len(loggers') >= Len(loggers)
       /\ \A i \in 1..Len(loggers) : loggers'[i] = loggers[i]
       /\ \A i \in 1..Len(loggers') :
             IF origin'[i].parent = 0
             THEN loggers'[i].contextMessage = << >>
             ELSE Keys(loggers'[i].contextMessage) =
                      Keys(loggers'[origin'[i].parent].contextMessage)
                          \cup DOMAIN origin'[i].fields]_vars

\* the default logger has two derived loggers with different fields, and an
\* Info call on it after both derivations wrote a line without a suffix
C3_Witness ==
    /\ Len(loggers) = 3
    /\ origin[2].parent = std /\ origin[3].parent = std
    /\ loggers[2].contextMessage # loggers[3].contextMessage
    /\ loggers[2].contextMessage # << >> /\ loggers[3].contextMessage # << >>
    /\ last.op = "Info" /\ last.l = std /\ Wrote
    /\ line = PrefixOf(0, "INFO") \o <<"msg=">> \o Quote(last.msg) \o <<"\n">>

\* C4: the suffix of g.WithContext(fields) is g's suffix followed by one
\* " k=v" fragment for every entry of fields, each exactly once, in some
\* order; an empty map leaves the suffix as it is.
C4_Suffix ==
    \A i \in 1..Len(loggers) :
        origin[i].parent # 0 =>
            LET c == loggers[i].contextMessage
                b == loggers[origin[i].parent].contextMessage
                s == origin[i].fields
                K == DOMAIN s
            IN  /\ Len(c) = Len(b) + 4 * Cardinality(K)
                /\ SubSeq(c, 1, Len(b)) = b
                /\ \A k \in K :
                      Cardinality({j \in 0..(Cardinality(K) - 1) :
                          SubSeq(c, Len(b) + 4 * j + 1, Len(b) + 4 * j + 4)
                              = <<" ", k, "=", s[k]>>}) = 1

\* {a: 1} and then {b: 2} from the default logger give " a=1" and " a=1 b=2"
C4_Witness ==
    /\ Len(loggers) = 3
    /\ origin[2] = [parent |-> std, env |-> NoEnv, fields |-> "a" :> "1"]
    /\ origin[3] = [parent |-> 2, env |-> NoEnv, fields |-> "b" :> "2"]
    /\ loggers[2].contextMessage = <<" ", "a", "=", "1">>
    /\ loggers[3].contextMessage = <<" ", "a", "=", "1", " ", "b", "=", "2">>

C6_FatalLine ==
    last.op \in FatalOps =>
        /\ TagAt(line, 1, "FATAL")
        /\ Places(line, "timestamp=") = {}
        /\ Places(line, "level=") = {1}

\* C7: the threshold NewLogger gives is ERROR when LOG_LEVEL reads "error" in
\* any casing, DEBUG when it reads "debug" in any casing, and INFO otherwise
\* (also when LOG_LEVEL is empty or not set).
C7_Level ==
    \A i \in 1..Len(loggers) :
        origin[i].parent = 0 =>
            LET v == IF origin[i].env.set THEN origin[i].env.val ELSE << >>
            IN  loggers[i].Level =
                    (IF EqualFold(v, <<"e","r","r","o","r">>) THEN [val |-> 0, name |-> "ERROR"]
                     ELSE IF EqualFold(v, <<"d","e","b","u","g">>) THEN [val |-> 2, name |-> "DEBUG"]
                     ELSE [val |-> 1, name |-> "INFO"])

\* LOG_LEVEL=Debug gave DEBUG to the default logger, and a later
\* LOG_LEVEL=bogus gave INFO to a constructed one
C7_Witness ==
    /\ Len(loggers) = 2
    /\ origin[1].env = [set |-> TRUE, val |-> <<"D","e","b","u","g">>]
    /\ loggers[1].Level.name = "DEBUG"
    /\ origin[2].env = [set |-> TRUE, val |-> <<"b","o","g","u","s">>]
    /\ loggers[2].Level.name = "INFO"

\* C8: a logger made by WithContext or WithSource has the threshold and the
\* sink of its receiver, so through any chain of derivations an emission
\* call on it writes exactly when the same call on the first logger would.
C8_Derived ==
    /\ \A i \in 1..Len(loggers) :
          origin[i].parent # 0 =>
              /\ loggers[i].Level = loggers[origin[i].parent].Level
              /\ loggers[i].Logger = loggers[origin[i].parent].Logger
    /\ (last.op \in EmitOps /\ origin[last.l].parent # 0) =>
          (Wrote <=> Rank(last.lvl) <= Rank(loggers[Root(last.l)].Level.name))

\* an Info call on a logger derived, in two steps, from a constructed logger
\* of threshold DEBUG wrote a line, the default logger's threshold being ERROR
C8_Witness ==
    /\ Len(loggers) = 3
    /\ loggers[std].Level.name = "ERROR"
    /\ origin[2].parent = 0 /\ loggers[2].Level.name = "DEBUG"
    /\ origin[3].parent = 2
    /\ last.op = "Info" /\ last.l = 3 /\ Wrote

\* C9: setting the prefix and writing the line are two steps on the shared
\* sink: a line carries the prefix the sink holds when it is written, which
\* is the call's own unless another call stored its prefix in between, and
\* then it is that other call's.
C9_Race ==
    (last.op = "log" /\ Wrote) =>
        line = (IF last.raced THEN last.other ELSE last.own)
                 \o <<"msg=">> \o Quote(last.msg)
                 \o loggers[last.l].contextMessage \o <<"\n">>

\* a line written by a call of one level carries the timestamp and the level
\* of a call of another level, on the other logger
C9_Witness ==
    /\ last.op = "log" /\ Wrote /\ last.raced
    /\ last.lvl = "INFO" /\ last.l = 2
    /\ line = PrefixOf(1, "ERROR") \o <<"msg=">> \o Quote(last.msg)
                \o loggers[2].contextMessage \o <<"\n">>
    /\ last.own = PrefixOf(0, "INFO")

\* C10: after an emission call of level L, written or filtered, the prefix
\* of the sink is that call's "timestamp=<t> level=L ", and every logger
\* shares that sink.
C10_Prefix ==
    last.op \in EmitOps =>
        /\ \E now \in Times : prefix = PrefixOf(now, last.lvl)
        /\ \A i \in 1..Len(loggers) : loggers[i].Logger = "log.std"

\* a Debug call on a logger of threshold INFO wrote nothing and left its
\* prefix in the sink
C10_Witness ==
    /\ last.op = "Debug"
    /\ loggers[last.l].Level.name = "INFO"
    /\ written = last.n
    /\ prefix = PrefixOf(1, "DEBUG")

====
